---------------------------- MODULE Spec2Model ----------------------------
(***************************************************************************)
(* A model of the NBT view of BEditor (src/src/nbt_view.rs): the view's    *)
(* state (path, nbt, endian, header), its update handler, parse_nbt, the   *)
(* rendering functions nbt2elements and view, and the byte cursor and tag  *)
(* decoder of the bedrock_rs crate that parse_nbt drives.                  *)
(*                                                                         *)
(* Bytes are integers 0..255.  A string that came off the wire is kept as  *)
(* its UTF-8 bytes, and so is every rendered text.  A 64-bit integer and   *)
(* a float are kept as their bytes, most significant first, because the    *)
(* model checker's integers are 32 bits wide.                              *)
(***************************************************************************)
EXTENDS Integers, Sequences, FiniteSets, TLC

VARIABLES
    path,     \* NbtView.path
    nbt,      \* NbtView.nbt : Result<(String, NbtTag, Option<(i32,i32)>), String>
    endian,   \* NbtView.endian
    header,   \* NbtView.header
    fs,       \* the file system fs::read looks the path up in
    run,      \* the last execution of parse_nbt: bytes read, library calls made
    prev,     \* the result of the decode before the buffer was last changed
    phase,    \* which operation produced the current state
    element   \* the Element tree last produced by view / nbt2elements

vars == <<path, nbt, endian, header, fs, run, prev, phase, element>>

----------------------------------------------------------------------------
(* Results of the library's fallible reads.                                 *)

Ok(v, p) == [ok |-> TRUE, v |-> v, pos |-> p]
Err(k) == [ok |-> FALSE, e |-> k]

(* ASCII text of the literals the code formats with.                        *)
Digit(n) == <<48 + n>>

RECURSIVE Decimal(_)
Decimal(n) == IF n < 10 THEN Digit(n) ELSE Decimal(n \div 10) \o Digit(n % 10)

\* Display of an i8 / i16 / i32.  A negative n is printed from -(n + 1), which
\* always fits, so that -2^31 needs no positive counterpart.
DisplayInt(n) ==
    IF n >= 0 THEN Decimal(n)
    ELSE LET m == -(n + 1)
             last == ((m % 10) + 1) % 10
             rest == IF m % 10 = 9 THEN (m \div 10) + 1 ELSE m \div 10
         IN <<45>> \o (IF rest = 0 THEN <<>> ELSE Decimal(rest)) \o Digit(last)

----------------------------------------------------------------------------
(* Byte cursor: ByteStreamRead over data, position p counted from 0.        *)

\* Rust's ? and match on a Result: go on with an Ok, hand an Err back.
Bind(r, K(_)) == IF r.ok THEN K(r) ELSE r
Map(r, F(_)) == IF r.ok THEN Ok(F(r.v), r.pos) ELSE r
IfOk(r, Then(_), Else(_)) == IF r.ok THEN Then(r) ELSE Else(r)
With(x, F(_)) == F(x)

S8(b) == IF b >= 128 THEN b - 256 ELSE b

read_bytes(d, p, n) ==
    IF Len(d) - p < n THEN Err("UnexpectedEof")
    ELSE Ok(SubSeq(d, p + 1, p + n), p + n)

read_u8(d, p) == Map(read_bytes(d, p, 1), LAMBDA v : v[1])

read_i8(d, p) == Map(read_bytes(d, p, 1), LAMBDA v : S8(v[1]))

read_u16le(d, p) == Map(read_bytes(d, p, 2), LAMBDA v : v[2] * 256 + v[1])

read_u16be(d, p) == Map(read_bytes(d, p, 2), LAMBDA v : v[1] * 256 + v[2])

read_i16le(d, p) == Map(read_bytes(d, p, 2), LAMBDA v : S8(v[2]) * 256 + v[1])

read_i16be(d, p) == Map(read_bytes(d, p, 2), LAMBDA v : S8(v[1]) * 256 + v[2])

read_i32be(d, p) ==
    Map(read_bytes(d, p, 4),
        LAMBDA v : S8(v[1]) * 16777216 + v[2] * 65536 + v[3] * 256 + v[4])

read_i32le(d, p) ==
    Map(read_bytes(d, p, 4),
        LAMBDA v : S8(v[4]) * 16777216 + v[3] * 65536 + v[2] * 256 + v[1])

Reverse(s) == [i \in 1..Len(s) |-> s[Len(s) + 1 - i]]

\* Fixed-width values kept as bytes, most significant first.
read_wide_le(d, p, n) == Map(read_bytes(d, p, n), Reverse)

read_wide_be(d, p, n) == read_bytes(d, p, n)

\* The 7-bit groups of a variable-length integer of at most max bytes, least
\* significant group first.  One byte more than max is an error of its own.
RECURSIVE read_varint_groups(_, _, _, _)
read_varint_groups(d, p, acc, max) ==
    Bind(read_u8(d, p),
         LAMBDA r :
            IF r.v < 128 THEN Ok(Append(acc, r.v), r.pos)
            ELSE IF Len(acc) + 1 = max THEN Err("VarintOverflow")
            ELSE read_varint_groups(d, r.pos, Append(acc, r.v % 128), max))

Group(g, k) == IF k <= Len(g) THEN g[k] ELSE 0

\* An unsigned 32-bit varint used as a length.  A value of 2^31 or more cannot
\* be represented here; it is reported as 2^31 - 1, which no buffer satisfies.
read_u32_varint(d, p) ==
    Map(read_varint_groups(d, p, <<>>, 5),
        LAMBDA g :
            IF (Group(g, 5) % 16) >= 8 THEN 2147483647
            ELSE Group(g, 1) + Group(g, 2) * 128 + Group(g, 3) * 16384
                 + Group(g, 4) * 2097152 + (Group(g, 5) % 8) * 268435456)

\* (n >> 1) ^ -(n & 1) of the 32-bit n the groups g spell.
ZigZag32(g) ==
    LET half == (Group(g, 1) \div 2) + Group(g, 2) * 64 + Group(g, 3) * 8192
                + Group(g, 4) * 1048576 + (Group(g, 5) % 16) * 134217728
    IN IF Group(g, 1) % 2 = 1 THEN (-half) - 1 ELSE half

\* A zig-zag signed 32-bit varint.
read_i32_varint(d, p) == Map(read_varint_groups(d, p, <<>>, 5), ZigZag32)

\* Bit i of the 64-bit n the groups g spell.
NBit(g, i) ==
    IF i > 63 THEN 0 ELSE (Group(g, (i \div 7) + 1) \div (2 ^ (i % 7))) % 2

\* Bit j of (n >> 1) ^ -(n & 1).
VBit(g, j) == (NBit(g, j + 1) + NBit(g, 0)) % 2

\* The zig-zag decoded 64-bit value as 8 bytes, most significant first.
ZigZag64(g) ==
    [i \in 1..8 |->
        LET k == 8 - i IN
        VBit(g, 8 * k) + 2 * VBit(g, 8 * k + 1) + 4 * VBit(g, 8 * k + 2)
        + 8 * VBit(g, 8 * k + 3) + 16 * VBit(g, 8 * k + 4)
        + 32 * VBit(g, 8 * k + 5) + 64 * VBit(g, 8 * k + 6)
        + 128 * VBit(g, 8 * k + 7)]

\* A zig-zag signed 64-bit varint.
read_i64_varint(d, p) == Map(read_varint_groups(d, p, <<>>, 10), ZigZag64)

\* String::from_utf8's acceptance of the bytes s, from index i on.
RECURSIVE Utf8Valid(_, _)
Utf8Valid(s, i) ==
    LET n == Len(s)
        Cont(j) == j <= n /\ s[j] >= 128 /\ s[j] <= 191
        In(j, lo, hi) == j <= n /\ s[j] >= lo /\ s[j] <= hi
    IN
    IF i > n THEN TRUE
    ELSE LET b == s[i] IN
         IF b < 128 THEN Utf8Valid(s, i + 1)
         ELSE IF b >= 194 /\ b <= 223 THEN Cont(i + 1) /\ Utf8Valid(s, i + 2)
         ELSE IF b = 224
              THEN In(i + 1, 160, 191) /\ Cont(i + 2) /\ Utf8Valid(s, i + 3)
         ELSE IF b = 237
              THEN In(i + 1, 128, 159) /\ Cont(i + 2) /\ Utf8Valid(s, i + 3)
         ELSE IF b >= 225 /\ b <= 239
              THEN Cont(i + 1) /\ Cont(i + 2) /\ Utf8Valid(s, i + 3)
         ELSE IF b = 240
              THEN In(i + 1, 144, 191) /\ Cont(i + 2) /\ Cont(i + 3)
                   /\ Utf8Valid(s, i + 4)
         ELSE IF b = 244
              THEN In(i + 1, 128, 143) /\ Cont(i + 2) /\ Cont(i + 3)
                   /\ Utf8Valid(s, i + 4)
         ELSE IF b >= 241 /\ b <= 243
              THEN Cont(i + 1) /\ Cont(i + 2) /\ Cont(i + 3)
                   /\ Utf8Valid(s, i + 4)
         ELSE FALSE

\* A string of len bytes at p: the bytes must be there, then be UTF-8.
read_utf8(d, p, len) ==
    Bind(read_bytes(d, p, len),
         LAMBDA r : IF Utf8Valid(r.v, 1) THEN r ELSE Err("InvalidUtf8"))

----------------------------------------------------------------------------
(* Dialects: NbtLittleEndian, NbtLittleEndianNetwork, NbtBigEndian.         *)

NbtEndian_ALL == <<"Little", "LittleNetwork", "Big">>
NbtHeader_ALL == <<"None", "Normal", "LevelDat">>

Endians == {NbtEndian_ALL[i] : i \in 1..3}
HeaderModes == {NbtHeader_ALL[i] : i \in 1..3}

dialect_i16(en, d, p) ==
    IF en = "Big" THEN read_i16be(d, p) ELSE read_i16le(d, p)

dialect_i32(en, d, p) ==
    CASE en = "Little" -> read_i32le(d, p)
      [] en = "Big" -> read_i32be(d, p)
      [] en = "LittleNetwork" -> read_i32_varint(d, p)

dialect_i64(en, d, p) ==
    CASE en = "Little" -> read_wide_le(d, p, 8)
      [] en = "Big" -> read_wide_be(d, p, 8)
      [] en = "LittleNetwork" -> read_i64_varint(d, p)

dialect_f32(en, d, p) ==
    IF en = "Big" THEN read_wide_be(d, p, 4) ELSE read_wide_le(d, p, 4)

dialect_f64(en, d, p) ==
    IF en = "Big" THEN read_wide_be(d, p, 8) ELSE read_wide_le(d, p, 8)

\* A length-prefixed UTF-8 string: the prefix is an unsigned 16-bit integer in
\* the dialect's byte order, or an unsigned varint in the network dialect.
dialect_string(en, d, p) ==
    Bind(CASE en = "Little" -> read_u16le(d, p)
           [] en = "Big" -> read_u16be(d, p)
           [] en = "LittleNetwork" -> read_u32_varint(d, p),
         LAMBDA len : read_utf8(d, len.pos, len.v))

----------------------------------------------------------------------------
(* NbtTag and the recursive tag decoder.                                    *)

Byte(v) == [t |-> "Byte", i |-> v]
Int16(v) == [t |-> "Int16", i |-> v]
Int32(v) == [t |-> "Int32", i |-> v]
Int64(v) == [t |-> "Int64", w |-> v]
Float32(v) == [t |-> "Float32", f |-> v]
Float64(v) == [t |-> "Float64", f |-> v]
String(v) == [t |-> "String", s |-> v]
List(v) == [t |-> "List", l |-> v]
Compound(v) == [t |-> "Compound", c |-> v]
Empty == [t |-> "Empty"]

\* The wire's type codes: those of the format the concrete buffers use
\* (0x03 an Int32, 0x0A a Compound).
KnownTagType(b) == b \in {0, 1, 2, 3, 4, 5, 6, 8, 9, 10}

\* Insert into a compound's ordered mapping: a name already there keeps its
\* place and takes the new value.
compound_insert(entries, name, tag) ==
    IF \E i \in 1..Len(entries) : entries[i].k = name
    THEN [i \in 1..Len(entries) |->
             IF entries[i].k = name THEN [k |-> name, x |-> tag] ELSE entries[i]]
    ELSE Append(entries, [k |-> name, x |-> tag])

RECURSIVE decode_payload(_, _, _, _)
RECURSIVE decode_list(_, _, _, _, _, _)
RECURSIVE decode_compound(_, _, _, _)

\* One named tag: the type byte, then (unless it is the end marker) the name
\* and the payload.  The value is <<name, tag>>.
decode_named(en, d, p) ==
    Bind(read_u8(d, p),
         LAMBDA ty :
            IF ~KnownTagType(ty.v)
            THEN Err("UnknownTagType(" \o ToString(ty.v) \o ")")
            ELSE IF ty.v = 0 THEN Ok(<<(<<>>), Empty>>, ty.pos)
            ELSE Bind(dialect_string(en, d, ty.pos),
                      LAMBDA name :
                         Map(decode_payload(en, d, name.pos, ty.v),
                             LAMBDA tag : <<name.v, tag>>)))

\* The payload of a tag of type ty.
decode_payload(en, d, p, ty) ==
    CASE ty = 0 -> Ok(Empty, p)
      [] ty = 1 -> Map(read_i8(d, p), Byte)
      [] ty = 2 -> Map(dialect_i16(en, d, p), Int16)
      [] ty = 3 -> Map(dialect_i32(en, d, p), Int32)
      [] ty = 4 -> Map(dialect_i64(en, d, p), Int64)
      [] ty = 5 -> Map(dialect_f32(en, d, p), Float32)
      [] ty = 6 -> Map(dialect_f64(en, d, p), Float64)
      [] ty = 8 -> Map(dialect_string(en, d, p), String)
      [] ty = 9 ->
           Bind(read_u8(d, p),
                LAMBDA et :
                   Bind(dialect_i32(en, d, et.pos),
                        LAMBDA n :
                           IF n.v < 0
                           THEN Err("InvalidListLength(" \o ToString(n.v) \o ")")
                           ELSE IF n.v = 0 \/ et.v = 0 THEN Ok(List(<<>>), n.pos)
                           ELSE IF ~KnownTagType(et.v)
                           THEN Err("UnknownTagType(" \o ToString(et.v) \o ")")
                           ELSE decode_list(en, d, n.pos, et.v, n.v, <<>>)))
      [] ty = 10 -> decode_compound(en, d, p, <<>>)

\* The n remaining nameless elements of a list of element type ty.
decode_list(en, d, p, ty, n, acc) ==
    IF n = 0 THEN Ok(List(acc), p)
    ELSE Bind(decode_payload(en, d, p, ty),
              LAMBDA r : decode_list(en, d, r.pos, ty, n - 1, Append(acc, r.v)))

\* The entries of a compound, up to its end marker.
decode_compound(en, d, p, acc) ==
    Bind(decode_named(en, d, p),
         LAMBDA r :
            IF r.v[2] = Empty THEN Ok(Compound(acc), r.pos)
            ELSE decode_compound(en, d, r.pos,
                                 compound_insert(acc, r.v[1], r.v[2])))

\* NbtTag::nbt_deserialize::<T>(&mut stream): the root tag.
nbt_deserialize(en, d, p) == decode_named(en, d, p)

----------------------------------------------------------------------------
(* NbtView::parse_nbt.                                                      *)

None == [some |-> FALSE]
Some(a, b) == [some |-> TRUE, v |-> <<a, b>>]

OkNbt(name, tag, hdr) == [ok |-> TRUE, name |-> name, tag |-> tag, header |-> hdr]
ErrStr(msg) == [ok |-> FALSE, err |-> msg]

Call(fn, at) == [fn |-> fn, at |-> at]

\* fs::read(self.path): the whole file, or the I/O error.
fs_read(files, p) ==
    IF p \in DOMAIN files /\ files[p].exists THEN Ok(files[p].data, 0)
    ELSE Err("NotFound")

\* A header read with the body's byte order instead of little-endian.
header_i32_by_dialect(self, d, p) ==
    IF self.endian = "Big" THEN read_i32be(d, p) ELSE read_i32le(d, p)

\* stream.read_i32le() of the header step.
header_i32(self, d, p) == read_i32le(d, p)

\* A failed header read taken for a missing header: the decode goes on.
header_failure_ignored(e, pos, calls) ==
    [ok |-> TRUE, header |-> None, pos |-> pos, calls |-> calls]

\* return Err(format!("Error reading Nbt header: {e:?}")).
header_failure(e, pos, calls) ==
    [ok |-> FALSE, err |-> "Error reading Nbt header: " \o e.e, pos |-> pos,
     calls |-> calls]

\* The header step: the cursor position it leaves, the header, the calls made.
read_header(self, d) ==
    IF self.header = "None"
    THEN [ok |-> TRUE, header |-> None, pos |-> 0, calls |-> <<>>]
    ELSE IfOk(header_i32(self, d, 0),
              LAMBDA first :
                 IfOk(header_i32(self, d, first.pos),
                      LAMBDA second :
                         [ok |-> TRUE, header |-> Some(first.v, second.v),
                          pos |-> second.pos,
                          calls |-> <<Call("read_i32le", 0),
                                      Call("read_i32le", first.pos)>>],
                      LAMBDA e :
                         header_failure(e, first.pos,
                                        <<Call("read_i32le", 0),
                                          Call("read_i32le", first.pos)>>)),
              LAMBDA e : header_failure(e, 0, <<Call("read_i32le", 0)>>))

\* A failed decode salvaged as an empty result.
body_result_salvaged(r, hdr, call, p) ==
    [result |-> IF r.ok THEN OkNbt(r.v[1], r.v[2], hdr)
                ELSE OkNbt(<<>>, Empty, hdr),
     calls |-> <<Call(call, p)>>,
     pos |-> IF r.ok THEN r.pos ELSE p]

\* The error formatted without its kind.
body_result_no_kind(r, hdr, call, p) ==
    [result |-> IF r.ok THEN OkNbt(r.v[1], r.v[2], hdr)
                ELSE ErrStr("Error parsing Nbt"),
     calls |-> <<Call(call, p)>>,
     pos |-> IF r.ok THEN r.pos ELSE p]

\* One arm of match self.endian: Ok((v.0, v.1, header)) or the formatted error.
body_result(r, hdr, call, p) ==
    [result |-> IF r.ok THEN OkNbt(r.v[1], r.v[2], hdr)
                ELSE ErrStr("Error parsing Nbt: " \o r.e),
     calls |-> <<Call(call, p)>>,
     pos |-> IF r.ok THEN r.pos ELSE p]

\* The arms of Little and Big exchanged.
parse_body_swapped(self, d, p, hdr) ==
    CASE self.endian = "Little" ->
           body_result(nbt_deserialize("Big", d, p), hdr,
                       "nbt_deserialize::<NbtLittleEndian>", p)
      [] self.endian = "LittleNetwork" ->
           body_result(nbt_deserialize("LittleNetwork", d, p), hdr,
                       "nbt_deserialize::<NbtLittleEndianNetwork>", p)
      [] self.endian = "Big" ->
           body_result(nbt_deserialize("Little", d, p), hdr,
                       "nbt_deserialize::<NbtBigEndian>", p)

\* A decode that rejects bytes left after the root tag.
parse_body_strict(self, d, p, hdr) ==
    With(body_result(nbt_deserialize(self.endian, d, p), hdr,
                     "nbt_deserialize", p),
         LAMBDA b :
            IF b.result.ok /\ b.pos < Len(d)
            THEN [b EXCEPT !.result = ErrStr("Error parsing Nbt: TrailingBytes")]
            ELSE b)

\* The tag step: one nbt_deserialize under the selected dialect, from p.
parse_body(self, d, p, hdr) ==
    CASE self.endian = "Little" ->
           body_result(nbt_deserialize("Little", d, p), hdr,
                       "nbt_deserialize::<NbtLittleEndian>", p)
      [] self.endian = "LittleNetwork" ->
           body_result(nbt_deserialize("LittleNetwork", d, p), hdr,
                       "nbt_deserialize::<NbtLittleEndianNetwork>", p)
      [] self.endian = "Big" ->
           body_result(nbt_deserialize("Big", d, p), hdr,
                       "nbt_deserialize::<NbtBigEndian>", p)

\* parse_nbt: its result, with the bytes it read, the library calls it made
\* and the position the cursor ended at.
parse_nbt(self, files) ==
    IfOk(fs_read(files, self.path),
         LAMBDA data :
            IfOk(read_header(self, data.v),
                 LAMBDA h :
                    With(parse_body(self, data.v, h.pos, h.header),
                         LAMBDA b :
                            [result |-> b.result,
                             read |-> [exists |-> TRUE, data |-> data.v],
                             calls |-> h.calls \o b.calls, pos |-> b.pos]),
                 LAMBDA h :
                    [result |-> ErrStr(h.err),
                     read |-> [exists |-> TRUE, data |-> data.v],
                     calls |-> h.calls, pos |-> h.pos]),
         LAMBDA e :
            [result |-> ErrStr("Error reading File: " \o e.e),
             read |-> [exists |-> FALSE, data |-> <<>>],
             calls |-> <<>>, pos |-> 0])

----------------------------------------------------------------------------
(* Rendering: Display of the values, iced's Text and Column, nbt2elements.  *)

INDENTATION == 3

\* The literals of the format strings, as ASCII.
LIT_sep == <<58, 32>>   \* : 
LIT_close == <<41>>   \* )
LIT_quote == <<34>>   \* a double quote
LIT_lbracket == <<91>>   \* [
LIT_rbracket == <<93>>   \* ]
LIT_lbrace == <<123>>   \* {
LIT_rbrace == <<125>>   \* }
LIT_EMPTY == <<58, 32, 69, 77, 80, 84, 89>>   \* : EMPTY
LIT_Byte == <<66, 121, 116, 101, 40>>   \* Byte(
LIT_Int16 == <<73, 110, 116, 49, 54, 40>>   \* Int16(
LIT_Int32 == <<73, 110, 116, 51, 50, 40>>   \* Int32(
LIT_Int64 == <<73, 110, 116, 54, 52, 40>>   \* Int64(
LIT_Float32 == <<70, 108, 111, 97, 116, 51, 50, 40>>   \* Float32(
LIT_Float64 == <<70, 108, 111, 97, 116, 54, 52, 40>>   \* Float64(
LIT_Header == <<72, 101, 97, 100, 101, 114, 58, 32, 123>>   \* Header: {
LIT_First == <<70, 105, 114, 115, 116, 58, 32>>   \* First: 
LIT_Length == <<76, 101, 110, 103, 116, 104, 58, 32>>   \* Length: 
LIT_FormatVersion == <<70, 111, 114, 109, 97, 116, 32, 86, 101, 114, 115, 105, 111, 110, 58, 32>>   \* Format Version: 
LIT_0 == <<48>>   \* 0
LIT_1_5 == <<49, 46, 53>>   \* 1.5
LIT_m1 == <<45, 49>>   \* -1
LIT_0_5 == <<48, 46, 53>>   \* 0.5
LIT_m2 == <<45, 50>>   \* -2

\* w = 0, for w the bytes of an integer.
IsZero(w) == \A i \in 1..Len(w) : w[i] = 0

\* w + 1 over the bytes from index i down, wrapping.
RECURSIVE AddOne(_, _)
AddOne(w, i) ==
    IF i = 0 THEN w
    ELSE IF w[i] = 255 THEN AddOne([w EXCEPT ![i] = 0], i - 1)
    ELSE [w EXCEPT ![i] = w[i] + 1]

\* -w in two's complement.
Negate(w) == AddOne([i \in 1..Len(w) |-> 255 - w[i]], Len(w))

\* w divided by 10: the quotient's bytes and the remainder.
RECURSIVE LongDiv10(_, _, _)
LongDiv10(w, i, carry) ==
    IF i > Len(w) THEN [q |-> <<>>, r |-> carry]
    ELSE With(LongDiv10(w, i + 1, (carry * 256 + w[i]) % 10),
              LAMBDA rest : [q |-> <<(carry * 256 + w[i]) \div 10>> \o rest.q,
                             r |-> rest.r])

\* The decimal digits of the unsigned w, none for 0.
RECURSIVE DecimalWide(_)
DecimalWide(w) ==
    IF IsZero(w) THEN <<>>
    ELSE With(LongDiv10(w, 1, 0), LAMBDA qr : DecimalWide(qr.q) \o Digit(qr.r))

\* Display of an i64 given as 8 bytes, most significant first.
DisplayInt64(w) ==
    IF IsZero(w) THEN Digit(0)
    ELSE IF w[1] >= 128 THEN <<45>> \o DecimalWide(Negate(w))
    ELSE DecimalWide(w)

\* Display of an f32 given as its 4 bytes, for the values rendered below.
DisplayFloat32(f) ==
    CASE f = <<0, 0, 0, 0>> -> LIT_0
      [] f = <<63, 192, 0, 0>> -> LIT_1_5
      [] f = <<191, 128, 0, 0>> -> LIT_m1

\* Display of an f64 given as its 8 bytes, for the values rendered below.
DisplayFloat64(f) ==
    CASE f = <<0, 0, 0, 0, 0, 0, 0, 0>> -> LIT_0
      [] f = <<63, 224, 0, 0, 0, 0, 0, 0>> -> LIT_0_5
      [] f = <<192, 0, 0, 0, 0, 0, 0, 0>> -> LIT_m2

Text(t) == [kind |-> "Text", text |-> t]
Message(e) == [kind |-> "Text", message |-> e]
Column(children, left) == [kind |-> "Column", left |-> left, children |-> children]

\* ": " after every name, the empty one too.
label_always(name) == name \o LIT_sep

\* {name}{} with ": " after a name that is not empty.
label(name) == IF name # <<>> THEN name \o LIT_sep ELSE <<>>

\* The text of a primitive tag after its label.
value_text(tag) ==
    CASE tag.t = "Byte" -> LIT_Byte \o DisplayInt(tag.i) \o LIT_close
      [] tag.t = "Int16" -> LIT_Int16 \o DisplayInt(tag.i) \o LIT_close
      [] tag.t = "Int32" -> LIT_Int32 \o DisplayInt(tag.i) \o LIT_close
      [] tag.t = "Int64" -> LIT_Int64 \o DisplayInt64(tag.w) \o LIT_close
      [] tag.t = "Float32" -> LIT_Float32 \o DisplayFloat32(tag.f) \o LIT_close
      [] tag.t = "Float64" -> LIT_Float64 \o DisplayFloat64(tag.f) \o LIT_close
      [] tag.t = "String" -> LIT_quote \o tag.s \o LIT_quote

RECURSIVE nbt2elements(_, _, _)
nbt2elements(name, tag, indent) ==
    LET padding == indent * INDENTATION IN
    CASE tag.t = "List" ->
           Column(<<Text(label(name) \o LIT_lbracket)>>
                  \o [i \in 1..Len(tag.l) |->
                         nbt2elements(<<>>, tag.l[i], indent + 1)]
                  \o <<Text(LIT_rbracket)>>,
                  padding)
      [] tag.t = "Compound" ->
           Column(<<Text(label(name) \o LIT_lbrace)>>
                  \o [i \in 1..Len(tag.c) |->
                         nbt2elements(tag.c[i].k, tag.c[i].x, indent + 1)]
                  \o <<Text(LIT_rbrace)>>,
                  padding)
      [] tag.t = "Empty" -> Column(<<Text(name \o LIT_EMPTY)>>, padding)
      [] OTHER -> Column(<<Text(label(name) \o value_text(tag))>>, padding)

----------------------------------------------------------------------------
(* BEditorView for NbtView: new and update.                                 *)

new == [path |-> "", nbt |-> ErrStr(""), endian |-> "Little", header |-> "None"]

Self == [path |-> path, nbt |-> nbt, endian |-> endian, header |-> header]

SetPath(v) == [type |-> "NbtViewSetPath", v |-> v]
SetEndian(v) == [type |-> "NbtViewSetEndian", v |-> v]
SetHeader(v) == [type |-> "NbtViewSetHeader", v |-> v]
Refresh == [type |-> "NbtViewRefresh", v |-> ""]

\* The view with the field the message sets.
apply_message(self, message) ==
    CASE message.type = "NbtViewSetPath" -> [self EXCEPT !.path = message.v]
      [] message.type = "NbtViewSetEndian" -> [self EXCEPT !.endian = message.v]
      [] message.type = "NbtViewSetHeader" -> [self EXCEPT !.header = message.v]
      [] message.type = "NbtViewRefresh" -> self

\* self.nbt = self.parse_nbt(), with the record of that parse_nbt.
reparse(self, files) ==
    With(parse_nbt(self, files),
         LAMBDA r : [self |-> [self EXCEPT !.nbt = r.result], run |-> r])

\* parse_nbt run before the message is applied.
update_stale(self, message, files) ==
    With(parse_nbt(self, files),
         LAMBDA r : [self |-> [apply_message(self, message) EXCEPT !.nbt = r.result],
                     run |-> r])

\* A change of header mode that keeps the stored result.
update_lazy(self, message, files) ==
    IF message.type = "NbtViewSetHeader"
    THEN [self |-> apply_message(self, message),
          run |-> parse_nbt(apply_message(self, message), files)]
    ELSE reparse(apply_message(self, message), files)

\* update: the field the message sets, then parse_nbt on the view as it now is.
update(self, message, files) == reparse(apply_message(self, message), files)

NoRun == [calls |-> <<>>, never |-> TRUE]
NoPrev == [never |-> TRUE]
NoElement == [kind |-> "None"]

\* The next state holds the view u.self and the record u.run.
Becomes(u) ==
    /\ path' = u.self.path
    /\ nbt' = u.self.nbt
    /\ endian' = u.self.endian
    /\ header' = u.self.header
    /\ run' = u.run

\* The view after update(message), with the record of that parse_nbt.
Deliver(message) == Becomes(update(Self, message, fs))

\* view's header lines: none without a header, or under header mode None.
view_header(self) ==
    IF ~self.nbt.header.some THEN <<>>
    ELSE CASE self.header = "None" -> <<>>
           [] self.header = "Normal" ->
                <<Text(LIT_Header),
                  Column(<<Text(LIT_First \o DisplayInt(self.nbt.header.v[1])),
                           Text(LIT_Length \o DisplayInt(self.nbt.header.v[2]))>>,
                         INDENTATION),
                  Text(LIT_rbrace)>>
           [] self.header = "LevelDat" ->
                <<Text(LIT_Header),
                  Column(<<Text(LIT_FormatVersion
                                \o DisplayInt(self.nbt.header.v[1])),
                           Text(LIT_Length \o DisplayInt(self.nbt.header.v[2]))>>,
                         INDENTATION),
                  Text(LIT_rbrace)>>

\* view: the row of controls over the scrollable result.
view(self) ==
    Column(<<[kind |-> "Row", path |-> self.path, endian |-> self.endian,
              header |-> self.header],
             IF self.nbt.ok
             THEN Column(view_header(self)
                         \o <<nbt2elements(self.nbt.name, self.nbt.tag, 1)>>, 0)
             ELSE Column(<<Message(self.nbt.err)>>, 0)>>,
           0)

----------------------------------------------------------------------------
(* The view in use: messages arrive in any order while files change.        *)

File(bytes) == [exists |-> TRUE, data |-> bytes]
NoFile == [exists |-> FALSE, data |-> <<>>]

\* The header (first = 1, length = 256) as the 8 bytes on disk.
Header_1_256 == <<1, 0, 0, 0, 0, 1, 0, 0>>

\* Int32 "Name" = 42 with the name length in each byte order.
Int32Name_BE == <<3, 0, 4, 78, 97, 109, 101, 42, 0, 0, 0>>
Int32Name_LE == <<3, 4, 0, 78, 97, 109, 101, 42, 0, 0, 0>>

EmptyCompound == <<10, 0, 0, 0>>

FsPaths == {"a.nbt", "b.dat"}
TypedPaths == {""} \cup FsPaths

FileCatalog ==
    { NoFile,
      File(EmptyCompound),
      File(Int32Name_LE),
      File(Header_1_256 \o EmptyCompound),
      File(Header_1_256 \o <<10, 0, 1, 0, 7, 0>>),
      File(<<1, 0, 0, 0, 0, 1>>),
      File(<<>>) }

Init ==
    /\ path = new.path
    /\ nbt = new.nbt
    /\ endian = new.endian
    /\ header = new.header
    /\ fs \in [FsPaths -> FileCatalog]
    /\ run = NoRun
    /\ prev = NoPrev
    /\ phase = "view"
    /\ element = NoElement

NbtViewSetPath ==
    /\ phase = "view"
    /\ \E v \in TypedPaths : Deliver(SetPath(v))
    /\ UNCHANGED <<fs, prev, phase, element>>

NbtViewSetEndian ==
    /\ phase = "view"
    /\ \E v \in Endians : Deliver(SetEndian(v))
    /\ UNCHANGED <<fs, prev, phase, element>>

NbtViewSetHeader ==
    /\ phase = "view"
    /\ \E v \in HeaderModes : Deliver(SetHeader(v))
    /\ UNCHANGED <<fs, prev, phase, element>>

NbtViewRefresh ==
    /\ phase = "view"
    /\ Deliver(Refresh)
    /\ UNCHANGED <<fs, prev, phase, element>>

\* Another program rewrites, creates or removes a file.
FsWrite ==
    /\ phase = "view"
    /\ \E p \in FsPaths :
          \E f \in FileCatalog \ {fs[p]} : fs' = [fs EXCEPT ![p] = f]
    /\ UNCHANGED <<path, nbt, endian, header, run, prev, phase, element>>

Next ==
    \/ NbtViewSetPath
    \/ NbtViewSetEndian
    \/ NbtViewSetHeader
    \/ NbtViewRefresh
    \/ FsWrite

Spec == Init /\ [][Next]_vars

----------------------------------------------------------------------------
(* parse_nbt as a function of (bytes, header mode, dialect): decoded once,  *)
(* then decoded again with the buffer cut short or with bytes added.        *)

MaxBody == 4
MaxHeadedBody == 3
MaxTail == 1

ByteAlphabet == {0, 1, 2, 9, 10, 128}
TailBytes == {0, 10, 128}

SeqsUpTo(S, n) == UNION {[1..k -> S] : k \in 0..n}

\* Buffers longer than MaxBody that the short ones leave out.
ScenarioBuffers ==
    { Int32Name_BE,
      Int32Name_LE,
      <<1, 0, 0, 0, 0, 1>>,
      <<1, 0, 0, 0, 0, 1, 0>>,
      <<9, 0, 0, 1, 2, 0, 0, 0, 7, 255>>,
      <<9, 0, 0, 1, 0, 0, 0, 2, 7, 255>>,
      <<9, 0, 0, 1, 255, 255, 255, 255>>,
      <<10, 0, 0, 8, 1, 0, 65, 2, 0, 206, 169, 0>>,
      <<10, 0, 0, 8, 0, 1, 65, 0, 2, 206, 169, 0>>,
      <<10, 1, 65, 10, 0, 9, 1, 66, 3, 4, 1, 3, 0, 0>>,
      <<9, 0, 1, 2, 7>>,
      <<10, 0, 1, 0, 7, 0>>,
      <<8, 0, 2, 206, 169>>,
      <<8, 0, 1, 206, 169>>,
      <<255, 255, 255, 255, 0, 0, 0, 128, 0>> }

DecodeInputs ==
    {NoFile}
    \cup {File(h \o b) : h \in {<<>>, Header_1_256}, b \in ScenarioBuffers}
    \cup {File(b) : b \in SeqsUpTo(ByteAlphabet, MaxBody)}
    \cup {File(Header_1_256 \o b) : b \in SeqsUpTo(ByteAlphabet, MaxHeadedBody)}

InputPath == "in.nbt"

DecodeInit ==
    /\ path = InputPath
    /\ nbt = new.nbt
    /\ endian \in Endians
    /\ header \in HeaderModes
    /\ fs \in [{InputPath} -> DecodeInputs]
    /\ run = NoRun
    /\ prev = NoPrev
    /\ phase = "input"
    /\ element = NoElement

\* Where the cursor stood when the tag decoder was called.
BodyStart == run.calls[Len(run.calls)].at

Decode ==
    /\ phase = "input"
    /\ Deliver(Refresh)
    /\ prev' = [NoPrev EXCEPT !.never = FALSE]
    /\ phase' = "decoded"
    /\ UNCHANGED <<fs, element>>

\* The file loses its end, the cut falling inside the root tag.
DecodeTruncated ==
    /\ phase = "decoded"
    /\ nbt.ok
    /\ \E k \in BodyStart..(run.pos - 1) :
          fs' = [fs EXCEPT ![path] = File(SubSeq(fs[path].data, 1, k))]
    /\ Becomes(update(Self, Refresh, fs'))
    /\ prev' = [never |-> FALSE, nbt |-> nbt, pos |-> run.pos, added |-> 0]
    /\ phase' = "truncated"
    /\ UNCHANGED element

\* The file gains one byte at its end.
DecodeExtended ==
    /\ phase \in {"decoded", "extended"}
    /\ nbt.ok
    /\ phase = "extended" => prev.added < MaxTail
    /\ \E b \in TailBytes :
          fs' = [fs EXCEPT ![path] = File(Append(fs[path].data, b))]
    /\ Becomes(update(Self, Refresh, fs'))
    /\ prev' = IF phase = "decoded"
               THEN [never |-> FALSE, nbt |-> nbt, pos |-> run.pos, added |-> 1]
               ELSE [prev EXCEPT !.added = prev.added + 1]
    /\ phase' = "extended"
    /\ UNCHANGED element

DecodeNext == Decode \/ DecodeTruncated \/ DecodeExtended

SpecDecode == DecodeInit /\ [][DecodeNext]_vars

----------------------------------------------------------------------------
(* Properties of parse_nbt.                                                 *)

Decoded == run # NoRun
DataRead == run.read.data

\* The little-endian signed 32-bit integer in the 4 bytes of d after offset o.
LE32(d, o) ==
    (IF d[o + 4] >= 128 THEN d[o + 4] - 256 ELSE d[o + 4]) * 16777216
    + d[o + 3] * 65536 + d[o + 2] * 256 + d[o + 1]

\* C1: the header step consumes no byte and yields None under header mode
\* None; under Normal and LevelDat it reads the first 8 bytes as two
\* little-endian signed 32-bit integers, in order, leaves the cursor at 8 for
\* the tag decoder, and a successful decode returns that pair whichever the
\* dialect of the body.
C1_HeaderStep ==
    (Decoded /\ run.read.exists) =>
        IF header = "None"
        THEN /\ Len(run.calls) = 1
             /\ BodyStart = 0
             /\ nbt.ok => nbt.header = None
        ELSE Len(DataRead) >= 8 =>
                /\ Len(run.calls) = 3
                /\ run.calls[1] = Call("read_i32le", 0)
                /\ run.calls[2] = Call("read_i32le", 4)
                /\ BodyStart = 8
                /\ nbt.ok => nbt.header = Some(LE32(DataRead, 0), LE32(DataRead, 4))
                /\ (nbt.ok /\ SubSeq(DataRead, 1, 8) = Header_1_256)
                      => nbt.header = Some(1, 256)

C1_Witness ==
    /\ phase = "decoded"
    /\ header = "LevelDat"
    /\ endian = "Big"
    /\ nbt.ok
    /\ nbt.header = Some(1, 256)
    /\ nbt.tag.t = "Compound"

\* C2: when the file read, the header read or the tag decode fails, parse_nbt
\* returns the error of that step and nothing else (no name, tag or header,
\* also when the header had been read), after a single call of the decoder.
C2_FailureIsOnlyAnError ==
    Decoded =>
        LET start == IF header = "None" THEN 0 ELSE 8
            fileFails == ~run.read.exists
            headerFails == ~fileFails /\ header # "None" /\ Len(DataRead) < 8
            body == nbt_deserialize(endian, DataRead, start)
            bodyFails == ~fileFails /\ ~headerFails /\ ~body.ok
        IN /\ fileFails => nbt = ErrStr("Error reading File: NotFound")
           /\ headerFails => nbt = ErrStr("Error reading Nbt header: UnexpectedEof")
           /\ bodyFails => nbt = ErrStr("Error parsing Nbt: " \o body.e)
           /\ ~nbt.ok => DOMAIN nbt = {"ok", "err"}
           /\ Cardinality({i \in 1..Len(run.calls) :
                              run.calls[i].fn # "read_i32le"}) <= 1
           /\ Len(run.calls) <= 3

C2_Witness ==
    /\ phase = "decoded"
    /\ header = "Normal"
    /\ Len(DataRead) > 8
    /\ Len(run.calls) = 3
    /\ nbt = ErrStr("Error parsing Nbt: UnknownTagType(128)")

\* C3: under header mode Normal or LevelDat a buffer of fewer than 8 bytes
\* fails with the header read's UnexpectedEof, after one read_i32le (fewer
\* than 4 bytes) or two (4 to 7 bytes) and no call of the tag decoder.
C3_ShortHeader ==
    (Decoded /\ run.read.exists /\ header # "None" /\ Len(DataRead) < 8) =>
        /\ nbt = ErrStr("Error reading Nbt header: UnexpectedEof")
        /\ run.calls = IF Len(DataRead) < 4
                       THEN <<Call("read_i32le", 0)>>
                       ELSE <<Call("read_i32le", 0), Call("read_i32le", 4)>>

C3_Witness ==
    /\ phase = "decoded"
    /\ header = "LevelDat"
    /\ Len(DataRead) = 7
    /\ Len(run.calls) = 2
    /\ ~nbt.ok

C6_CutFailsWithEof ==
    phase = "truncated" => nbt = ErrStr("Error parsing Nbt: UnexpectedEof")

C6_Witness ==
    /\ phase = "truncated"
    /\ endian = "LittleNetwork"
    /\ prev.nbt.tag.t = "Compound"
    /\ Len(prev.nbt.tag.c) = 1
    /\ prev.nbt.tag.c[1].x.t = "Compound"
    /\ Len(DataRead) = prev.pos - 1
    /\ ~nbt.ok

\* C7: bytes after the root tag change nothing: the decode of a buffer that
\* decoded, followed by any bytes, returns the same name, tag and header and
\* leaves the cursor where it was.
C7_TrailingBytesIgnored ==
    phase = "extended" => (nbt = prev.nbt /\ run.pos = prev.pos)

C7_Witness ==
    /\ phase = "extended"
    /\ nbt.ok
    /\ nbt.tag.t = "List"
    /\ Len(nbt.tag.l) = 2
    /\ Len(DataRead) > run.pos

----------------------------------------------------------------------------
(* Properties of the view in use.                                           *)

\* What fs::read finds at path p.
Lookup(files, p) == IF p \in DOMAIN files THEN files[p] ELSE NoFile

\* C4: every update stores the decode of the bytes the file holds at that
\* moment, under the path, header mode and dialect the message leaves; no
\* step other than a change of the file system passes this by.
C4_NeverCached ==
    [][fs' = fs =>
          /\ run'.read = Lookup(fs, path')
          /\ nbt' = parse_nbt([path |-> path', nbt |-> new.nbt,
                               endian |-> endian', header |-> header'],
                              fs).result]_vars

C4_Witness ==
    /\ phase = "view"
    /\ nbt.ok
    /\ endian = "LittleNetwork"
    /\ header = "Normal"
    /\ fs[path] # run.read

\* C10: a stored Ok result has a header exactly when the header mode is not
\* None, so view never meets a header under mode None, and shows a header
\* under the label of the current mode.
C10_HeaderMatchesMode ==
    (phase = "view" /\ nbt.ok) =>
        /\ nbt.header.some <=> header # "None"
        /\ header = "None" => view_header(Self) = <<>>
        /\ header = "Normal" =>
              view_header(Self)[2].children[1].text
                 = LIT_First \o DisplayInt(nbt.header.v[1])
        /\ header = "LevelDat" =>
              view_header(Self)[2].children[1].text
                 = LIT_FormatVersion \o DisplayInt(nbt.header.v[1])

C10_Witness ==
    /\ phase = "view"
    /\ nbt.ok
    /\ header = "LevelDat"
    /\ nbt.header = Some(1, 256)
    /\ fs[path] = NoFile

----------------------------------------------------------------------------
(* nbt2elements and view as functions of a decoded result.                  *)

MaxDepth == 2

RenderNames == {<<>>, <<97>>}

Leaves ==
    { Byte(-128), Int16(300), Int32(42), Int32(-2147483647 - 1),
      Int64(<<255, 255, 255, 255, 255, 255, 255, 254>>),
      Int64(<<0, 0, 1, 0, 0, 0, 0, 0>>),
      Float32(<<63, 192, 0, 0>>), Float64(<<192, 0, 0, 0, 0, 0, 0, 0>>),
      String(<<>>), String(<<206, 169>>) }

\* Trees of depth n at most: lists of one element or of the same element
\* twice, compounds of one entry or of two under different names.
RECURSIVE Trees(_)
Trees(n) ==
    IF n = 0 THEN Leaves \cup {List(<<>>), Compound(<<>>)}
    ELSE LET sub == Trees(n - 1) IN
         sub
         \cup {List(<<c>>) : c \in sub}
         \cup {List(<<c, c>>) : c \in sub}
         \cup {Compound(<<[k |-> n1, x |-> c]>>) : n1 \in RenderNames, c \in sub}
         \cup {Compound(<<[k |-> <<97>>, x |-> c], [k |-> <<98>>, x |-> Byte(7)]>>) :
                  c \in sub}

\* The results rendered: any name with any tree, Empty being a root only.
RenderInputs ==
    {OkNbt(n, t, None) : n \in RenderNames, t \in Trees(MaxDepth) \cup {Empty}}

RenderInit ==
    /\ path = InputPath
    /\ \E r \in RenderInputs, h \in HeaderModes :
          /\ header = h
          /\ nbt = IF h = "None" THEN r ELSE [r EXCEPT !.header = Some(1, -256)]
    /\ endian = new.endian
    /\ fs = [p \in {InputPath} |-> NoFile]
    /\ run = [NoRun EXCEPT !.never = FALSE]
    /\ prev = NoPrev
    /\ phase = "input"
    /\ element = NoElement

\* nbt2elements on the root, as view calls it.
RenderTree ==
    /\ phase = "input"
    /\ element' = nbt2elements(nbt.name, nbt.tag, 1)
    /\ phase' = "tree"
    /\ UNCHANGED <<path, nbt, endian, header, fs, run, prev>>

View ==
    /\ phase = "input"
    /\ element' = view(Self)
    /\ phase' = "viewed"
    /\ UNCHANGED <<path, nbt, endian, header, fs, run, prev>>

RenderNext == RenderTree \/ View

SpecRender == RenderInit /\ [][RenderNext]_vars

\* The first line of a tag as the spec gives it: name: Type(value).
TypeValue(tag) ==
    CASE tag.t = "Byte" -> LIT_Byte \o DisplayInt(tag.i) \o LIT_close
      [] tag.t = "Int16" -> LIT_Int16 \o DisplayInt(tag.i) \o LIT_close
      [] tag.t = "Int32" -> LIT_Int32 \o DisplayInt(tag.i) \o LIT_close
      [] tag.t = "Int64" -> LIT_Int64 \o DisplayInt64(tag.w) \o LIT_close
      [] tag.t = "Float32" -> LIT_Float32 \o DisplayFloat32(tag.f) \o LIT_close
      [] tag.t = "Float64" -> LIT_Float64 \o DisplayFloat64(tag.f) \o LIT_close
      [] tag.t = "String" ->
           <<83, 116, 114, 105, 110, 103, 40>> \o tag.s \o LIT_close

\* el renders (name, tag) in the spec's form, with sep between a name and
\* what follows it whether or not the name is empty.
RECURSIVE SpecForm(_, _, _)
SpecForm(el, name, tag) ==
    LET n == Len(el.children) IN
    CASE tag.t = "List" ->
           /\ n = Len(tag.l) + 2
           /\ el.children[1] = Text(name \o LIT_sep \o LIT_lbracket)
           /\ el.children[n] = Text(LIT_rbracket)
           /\ \A i \in 1..Len(tag.l) : SpecForm(el.children[i + 1], <<>>, tag.l[i])
      [] tag.t = "Compound" ->
           /\ n = Len(tag.c) + 2
           /\ el.children[1] = Text(name \o LIT_sep \o LIT_lbrace)
           /\ el.children[n] = Text(LIT_rbrace)
           /\ \A i \in 1..Len(tag.c) :
                 SpecForm(el.children[i + 1], tag.c[i].k, tag.c[i].x)
      [] tag.t = "Empty" -> el.children = <<Text(name \o LIT_EMPTY)>>
      [] OTHER -> el.children = <<Text(name \o LIT_sep \o TypeValue(tag))>>

\* el renders (name, tag) as the code does: the six numeric variants as
\* Type(value), a String as "value", a List between [ and ], a Compound
\* between { and }, each after name and ": " unless the name is empty; Empty
\* as name and ": EMPTY" for every name.
RECURSIVE CodeForm(_, _, _)
CodeForm(el, name, tag) ==
    LET n == Len(el.children)
        pre == IF name = <<>> THEN <<>> ELSE name \o LIT_sep
    IN
    CASE tag.t = "List" ->
           /\ n = Len(tag.l) + 2
           /\ el.children[1] = Text(pre \o LIT_lbracket)
           /\ el.children[n] = Text(LIT_rbracket)
           /\ \A i \in 1..Len(tag.l) : CodeForm(el.children[i + 1], <<>>, tag.l[i])
      [] tag.t = "Compound" ->
           /\ n = Len(tag.c) + 2
           /\ el.children[1] = Text(pre \o LIT_lbrace)
           /\ el.children[n] = Text(LIT_rbrace)
           /\ \A i \in 1..Len(tag.c) :
                 CodeForm(el.children[i + 1], tag.c[i].k, tag.c[i].x)
      [] tag.t = "Empty" -> el.children = <<Text(name \o LIT_EMPTY)>>
      [] tag.t = "String" ->
           el.children = <<Text(pre \o LIT_quote \o tag.s \o LIT_quote)>>
      [] OTHER -> el.children = <<Text(pre \o TypeValue(tag))>>

\* C8 as the spec states it: every tag is rendered name: { ... }, name: [ ... ],
\* name: Type(value) or name: EMPTY, for all seven primitives and every name.
C8_AsStated == phase = "tree" => SpecForm(element, nbt.name, nbt.tag)

\* C8, amended: see CodeForm.
C8_RenderedForm == phase = "tree" => CodeForm(element, nbt.name, nbt.tag)

C8_Witness ==
    /\ phase = "tree"
    /\ nbt.name = <<97>>
    /\ nbt.tag.t = "Compound"
    /\ Len(nbt.tag.c) = 2
    /\ nbt.tag.c[1].x.t = "List"
    /\ Len(nbt.tag.c[1].x.l) = 2
    /\ nbt.tag.c[1].x.l[1].t = "String"
    /\ element.children[2].children[2].children[1].text = <<34, 206, 169, 34>>

\* The x of el's lines when el is laid out at x: a column's padding moves
\* what it holds to the right.
LineX(el, x) == x + el.left

\* Every column nested in el, laid out at x, has its lines one INDENTATION to
\* the right of the lines of the column holding it.
RECURSIVE OneStepPerDepth(_, _)
OneStepPerDepth(el, x) ==
    \A i \in 1..Len(el.children) :
        el.children[i].kind = "Column" =>
            /\ LineX(el.children[i], LineX(el, x)) - LineX(el, x) = INDENTATION
            /\ OneStepPerDepth(el.children[i], LineX(el, x))

\* C9: the rendered tree is indented one INDENTATION per nesting depth.
C9_OneIndentationPerDepth == phase = "tree" => OneStepPerDepth(element, 0)

=============================================================================
